---- MODULE Spec2Model ----
(***************************************************************************)
(* TimerWidget of src/widget/timer_widget.rs: a polled timer that invokes  *)
(* a boxed callback once more than `timeout` milliseconds separate the     *)
(* reading of the system clock from the stored reading `initiated`.        *)
(*                                                                         *)
(* The system clock is a Duration since UNIX_EPOCH (whole seconds and      *)
(* nanoseconds of the second); time_ms converts it to milliseconds, and    *)
(* the widget only ever sees these millisecond readings.                   *)
(***************************************************************************)
EXTENDS Integers, Sequences, FiniteSets, TLC

(* ------------------------------ bounds --------------------------------- *)

\* The clock stops advancing once its reading is MaxTime ms after the start.
MaxTime == 4

\* The horizon, in ms after the start, of the specification that also calls
\* the operations of the Widget trait.
WidgetMaxTime == 2

\* The horizon, in ms after the start, of the specification whose clock may
\* be set back.
RegressMaxTime == 2

\* set_timeout draws its argument from 0..MaxTimeout.
MaxTimeout == 2

\* The system clock when the widget is constructed: 0.999 s after the epoch,
\* so that the readings cross a whole second.
StartTime == [secs |-> 0, nanos |-> 999000000]

\* How far the system clock moves in one step of Advance (nanoseconds).
AdvanceSteps == {500000, 1000000, 2000000}

\* How far the system clock moves between the two time_ms() calls of a
\* firing tick (nanoseconds).
SkewSteps == {0, 500000, 1000000}

\* The closures a caller may register; "noop" is the closure of new().
Callbacks == {"noop", "incr", "other"}

\* The arguments of draw, which it ignores.
Contexts == {"ctx"}

NoCallback == "none"

\* The widget ids and the points the host passes to the mouse hooks.
WidgetIds == {0, 1}

Points == {[x |-> 0, y |-> 0], [x |-> 3, y |-> -2]}

\* What a closure that is not invoked finds as the anchor.
NoAnchor == -1

\* What an operation without a result returns.
Unit == "()"

\* The scenario of a timer constructed at time 0 with a timeout of 100 ms and
\* a counting callback, ticked every 10 ms for 200 ms (all in milliseconds).
Scenario == [start |-> 0, timeout |-> 100, period |-> 10, duration |-> 200]

\* In the scenario, up to ScMaxSkew ms pass between the two time_ms() calls
\* of a firing tick.
ScMaxSkew == 9

\* In the scenario, a tick is called on its millisecond or half a millisecond
\* into it (nanoseconds).
ScLate == {0, 500000}

VARIABLES
    wall,               \* SystemTime::now().duration_since(UNIX_EPOCH)
    enabled,            \* TimerWidget.enabled
    initiated,          \* TimerWidget.initiated
    timeout,            \* TimerWidget.timeout
    timeout_function,   \* TimerWidget.timeout_function
    counter,            \* the counter captured by the closure "incr"
    invoked,            \* the closures the latest operation invoked, in order
    last,               \* the latest operation and the state it was called in
    prev,               \* the operation before it
    fired_at,           \* the clock reading at the latest invocation of a
                        \* closure, or at construction before the first
    returned,           \* what the latest operation returned
    observed,           \* the anchor the closure found when the latest
                        \* operation invoked it
    overflow_checks,    \* whether the build checks integer overflow
    panicked            \* whether the thread has panicked

vars == <<wall, enabled, initiated, timeout, timeout_function, counter,
          invoked, last, prev, fired_at, returned, observed,
           overflow_checks, panicked>>

(* --------------------------- the time source --------------------------- *)

\* time_ms(): whole seconds times 1000 plus the milliseconds of the second.
time_ms(since_the_epoch) ==
    (since_the_epoch.secs * 1000) + (since_the_epoch.nanos \div 1000000)

\* The Duration `ns` nanoseconds after `d`, normalised as Duration is.
duration_add(d, ns) ==
    LET total == d.nanos + ns
    IN  [secs |-> d.secs + (total \div 1000000000), nanos |-> total % 1000000000]

\* The reading of the clock when the widget was constructed.
StartMs == time_ms(StartTime)

(* ------------------------------ closures ------------------------------- *)

\* The value of the captured counter after the closure f has run.
call(f, c) == IF f = "incr" THEN c + 1 ELSE c

\* The value of the captured counter after the closures fs have run in order.
RECURSIVE call_all(_, _)
call_all(fs, c) ==
    IF fs = <<>> THEN c ELSE call_all(Tail(fs), call(Head(fs), c))

(* ------------------------- history of operations ----------------------- *)

\* What is remembered of an operation: its name and argument, the clock
\* reading when it was called, the fields it was called with, and whether it
\* invoked a closure.
OpRecord(op, arg, fired) ==
    [op |-> op, arg |-> arg, at |-> time_ms(wall), pre_enabled |-> enabled,
     pre_initiated |-> initiated, pre_timeout |-> timeout,
     pre_function |-> timeout_function, fired |-> fired]

NoArg == "-"

NoOp == [op |-> "none", arg |-> NoArg, at |-> 0, pre_enabled |-> FALSE,
         pre_initiated |-> 0, pre_timeout |-> 0, pre_function |-> NoCallback,
         fired |-> FALSE]

RecordCall(op, arg) ==
    /\ last' = OpRecord(op, arg, invoked' # <<>>)
    /\ prev' = last
    /\ fired_at' = IF invoked' # <<>> THEN time_ms(wall') ELSE fired_at
    /\ UNCHANGED overflow_checks

\* An operation that returns nothing.
Record(op, arg) ==
    /\ RecordCall(op, arg)
    /\ returned' = Unit

(* ------------------------------ TimerWidget ---------------------------- *)

\* TimerWidget::new(), called when the system clock is `start`.
new(start) ==
    /\ wall = start
    /\ enabled = TRUE
    /\ initiated = time_ms(wall)
    /\ timeout = 0
    /\ timeout_function = "noop"
    /\ counter = 0
    /\ invoked = <<>>
    /\ last = [op |-> "new", arg |-> NoArg, at |-> time_ms(wall),
               pre_enabled |-> TRUE, pre_initiated |-> time_ms(wall),
               pre_timeout |-> 0, pre_function |-> "noop", fired |-> FALSE]
    /\ prev = NoOp
    /\ fired_at = time_ms(wall)
    /\ returned = Unit
    /\ observed = NoAnchor
    /\ panicked = FALSE

\* The build of `cargo build`, which checks integer overflow.
Init == new(StartTime) /\ overflow_checks = TRUE

\* The modulus of u64 arithmetic. The program's is 2^64, beyond the integers
\* of the model checker; every clock reading and timeout of the model is far
\* below 2^30, so a wrapped difference exceeds every timeout here as there.
U64Modulus == 2^30

\* `-` as u64::saturating_sub: a negative difference is clamped to zero.
u64_saturating_sub(a, b) ==
    [panics |-> FALSE, value |-> IF a < b THEN 0 ELSE a - b]

\* `-` on u64: a negative difference panics in a build with overflow checks
\* and wraps modulo 2^64 in a build without.
u64_sub(a, b) ==
    [panics |-> overflow_checks /\ a < b, value |-> (a - b) % U64Modulus]

\* tick that always returns early.
tick_returns_always(en) == TRUE

\* tick without its early return: the enabled flag is never consulted.
tick_returns_never(en) == FALSE

\* `if !self.enabled { return; }`
tick_returns(en) == ~en

\* tick firing as soon as the timeout is reached: `>=` for `>`.
tick_due_ge(elapsed, t) == elapsed >= t

\* `if elapsed > self.timeout`
tick_due(elapsed, t) == elapsed > t

\* tick that fires without rearming: initiated keeps its value.
tick_rearm_keep(old, now) == old

\* tick that rearms to the deadline it missed, to catch up later.
tick_rearm_catch_up(old, now) == old + timeout + 1

\* tick that stores the next deadline instead of the current reading.
tick_rearm_deadline(old, now) == now + timeout

\* `self.initiated = time_ms();` in tick: the new value of initiated, given
\* the old one and the reading of the clock
tick_rearm(old, now) == now

\* tick that still invokes the closure of new() after on_timeout.
tick_calls_default(f) == <<"noop">>

\* `(self.timeout_function)();`: the closures a firing tick invokes
tick_calls(f) == <<f>>

\* tick that invokes the closure before it rearms: the closure still sees
\* the old anchor.
tick_seen_before_rearm(before, after) == before

\* Line 61 precedes line 62: the value of initiated that the closure finds
\* when it is invoked, given the values before and after the assignment.
tick_seen(before, after) == after

\* The closures invoked by the tick that the closure "reenter" calls on the
\* same widget when it runs: it is called with enabled true, the anchor the
\* closure finds and the clock still at `now`; a nested tick that fires finds
\* the same and is not followed further.
reentered(f, anchor, now) ==
    IF f = "reenter" /\ tick_due(now - anchor, timeout) THEN <<f>> ELSE <<>>

\* TimerWidget::tick(); `skew` is the time that passes between its two
\* readings of the clock.
tick(skew) ==
    IF tick_returns(enabled)
    THEN /\ invoked' = <<>>
         /\ observed' = NoAnchor
         /\ UNCHANGED panicked
         /\ UNCHANGED <<wall, enabled, initiated, timeout, timeout_function, counter>>
    ELSE LET elapsed == u64_sub(time_ms(wall), initiated)
         IN  IF elapsed.panics
             THEN /\ panicked' = TRUE
                  /\ invoked' = <<>>
                  /\ observed' = NoAnchor
                  /\ UNCHANGED <<wall, enabled, initiated, timeout,
                                 timeout_function, counter>>
             ELSE IF tick_due(elapsed.value, timeout)
             THEN /\ wall' = duration_add(wall, skew)
                  /\ UNCHANGED panicked
                  /\ initiated' = tick_rearm(initiated, time_ms(wall'))
                  /\ observed' = tick_seen(initiated, initiated')
                  /\ invoked' = tick_calls(timeout_function)
                                   \o reentered(timeout_function, observed',
                                                time_ms(wall'))
                  /\ counter' = call_all(invoked', counter)
                  /\ UNCHANGED <<enabled, timeout, timeout_function>>
             ELSE /\ invoked' = <<>>
                  /\ observed' = NoAnchor
                  /\ UNCHANGED panicked
                  /\ UNCHANGED <<wall, enabled, initiated, timeout,
                                 timeout_function, counter>>

\* set_enabled that restarts the clock only when it disables.
set_enabled_anchor_on_disable(old, now, was, e) == IF e THEN old ELSE now

\* set_enabled that restarts the clock only when the flag changes.
set_enabled_anchor_on_change(old, now, was, e) == IF was = e THEN old ELSE now

\* `self.initiated = time_ms();` in set_enabled
set_enabled_anchor(old, now, was, e) == now

\* TimerWidget::set_enabled(enabled)
set_enabled(e) ==
    /\ enabled' = e
    /\ initiated' = set_enabled_anchor(initiated, time_ms(wall), enabled, e)
    /\ invoked' = <<>>
    /\ observed' = NoAnchor
    /\ UNCHANGED panicked
    /\ UNCHANGED <<wall, timeout, timeout_function, counter>>

\* TimerWidget::on_timeout(timeout_function)
on_timeout(f) ==
    /\ timeout_function' = f
    /\ invoked' = <<>>
    /\ observed' = NoAnchor
    /\ UNCHANGED panicked
    /\ UNCHANGED <<wall, enabled, initiated, timeout, counter>>

\* set_timeout that also restarts the clock.
set_timeout_rearms(t) ==
    /\ timeout' = t
    /\ initiated' = time_ms(wall)
    /\ invoked' = <<>>
    /\ observed' = NoAnchor
    /\ UNCHANGED panicked
    /\ UNCHANGED <<wall, enabled, timeout_function, counter>>

\* set_timeout that also starts the timer.
set_timeout_enables(t) ==
    /\ timeout' = t
    /\ enabled' = TRUE
    /\ invoked' = <<>>
    /\ observed' = NoAnchor
    /\ UNCHANGED panicked
    /\ UNCHANGED <<wall, initiated, timeout_function, counter>>

\* TimerWidget::set_timeout(timeout)
set_timeout(t) ==
    /\ timeout' = t
    /\ invoked' = <<>>
    /\ observed' = NoAnchor
    /\ UNCHANGED panicked
    /\ UNCHANGED <<wall, enabled, initiated, timeout_function, counter>>

\* draw that draws nothing and does not tick either.
draw_nothing(context, graphics, skew) ==
    /\ invoked' = <<>>
    /\ observed' = NoAnchor
    /\ UNCHANGED panicked
    /\ UNCHANGED <<wall, enabled, initiated, timeout, timeout_function, counter>>

\* Widget::draw for TimerWidget: `self.tick();`
draw(context, graphics, skew) == tick(skew)

(* ------------------------------- actions ------------------------------- *)

InTime(d) == time_ms(d) <= StartMs + MaxTime

\* Time passes between two operations.
Advance ==
    \E ns \in AdvanceSteps :
        /\ InTime(duration_add(wall, ns))
        /\ wall' = duration_add(wall, ns)
        /\ UNCHANGED <<enabled, initiated, timeout, timeout_function, counter,
                       invoked, last, prev, fired_at, returned, observed,
           overflow_checks, panicked>>

Tick ==
    \E skew \in SkewSteps :
        /\ InTime(duration_add(wall, skew))
        /\ tick(skew)
        /\ Record("tick", NoArg)

Draw ==
    \E skew \in SkewSteps, c \in Contexts, g \in Contexts :
        /\ InTime(duration_add(wall, skew))
        /\ draw(c, g, skew)
        /\ Record("draw", NoArg)

SetEnabled ==
    \E e \in BOOLEAN :
        /\ set_enabled(e)
        /\ Record("set_enabled", e)

OnTimeout ==
    \E f \in Callbacks :
        /\ on_timeout(f)
        /\ Record("on_timeout", f)

SetTimeout ==
    \E t \in 0..MaxTimeout :
        /\ set_timeout(t)
        /\ Record("set_timeout", t)

Next ==
    \/ Advance
    \/ Tick
    \/ Draw
    \/ SetEnabled
    \/ OnTimeout
    \/ SetTimeout

Spec == Init /\ [][Next]_vars

\* A closure is registered that calls tick on the widget it is registered with.
OnTimeoutReentrant ==
    /\ on_timeout("reenter")
    /\ Record("on_timeout", "reenter")

\* The timer with only the closure of new() and the re-entrant one.
ReentrantNext ==
    \/ Advance
    \/ Tick
    \/ Draw
    \/ SetEnabled
    \/ SetTimeout
    \/ OnTimeoutReentrant

ReentrantSpec == Init /\ [][ReentrantNext]_vars

(* ----------------------------- periodic use --------------------------- *)

\* set_timeout as the first call after new().
LiveSetTimeout == last.op = "new" /\ SetTimeout

\* The timer left enabled with the timeout it was given at the start.
LiveNext ==
    \/ Advance
    \/ Tick
    \/ Draw
    \/ OnTimeout
    \/ LiveSetTimeout

\* The host keeps calling tick and the clock keeps advancing.
LiveSpec == Init /\ [][LiveNext]_vars /\ WF_vars(Tick) /\ WF_vars(Advance)

(* ------------------------ a clock that goes back ----------------------- *)

\* The Duration `ns` nanoseconds before `d`.
duration_sub(d, ns) ==
    IF d.nanos >= ns
    THEN [secs |-> d.secs, nanos |-> d.nanos - ns]
    ELSE [secs |-> d.secs - 1, nanos |-> d.nanos + 1000000000 - ns]

\* The system clock is set back, not further than to its value at the start.
ClockRegress ==
    \E ns \in AdvanceSteps :
        /\ time_ms(duration_sub(wall, ns)) >= StartMs
        /\ wall' = duration_sub(wall, ns)
        /\ UNCHANGED <<enabled, initiated, timeout, timeout_function, counter,
                       invoked, last, prev, fired_at, returned, observed,
                       overflow_checks, panicked>>

\* Either build.
RegressInit == new(StartTime) /\ overflow_checks \in BOOLEAN

Running == ~panicked

InRegressTime == time_ms(wall) <= StartMs + RegressMaxTime

\* The timer with the closure of new() on a system clock that may be set
\* back, until the clock reads RegressMaxTime ms after the start; a panic ends
\* the run.
RegressNext ==
    \/ Running /\ Advance /\ InRegressTime'
    \/ Running /\ ClockRegress
    \/ Running /\ Tick /\ InRegressTime'
    \/ Running /\ Draw /\ InRegressTime'
    \/ Running /\ SetEnabled
    \/ Running /\ SetTimeout

RegressSpec == RegressInit /\ [][RegressNext]_vars

IsTick(r) == r.op = "tick"

(* ------------------------- the Widget capability ----------------------- *)

\* make_origin_point() of core::point
make_origin_point == [x |-> 0, y |-> 0]

\* make_unsized() of core::point
make_unsized == [w |-> 0, h |-> 0]

\* An operation of the Widget trait that touches no field of the timer.
NoEffect ==
    /\ invoked' = <<>>
    /\ observed' = NoAnchor
    /\ UNCHANGED panicked
    /\ UNCHANGED <<wall, enabled, initiated, timeout, timeout_function, counter>>

\* Widget::get_origin for TimerWidget
get_origin ==
    /\ returned' = make_origin_point
    /\ NoEffect

\* get_size that reports one pixel.
get_size_one ==
    /\ returned' = [w |-> 1, h |-> 1]
    /\ NoEffect

\* Widget::get_size for TimerWidget
get_size ==
    /\ returned' = make_unsized
    /\ NoEffect

\* Widget::mouse_entered for TimerWidget
mouse_entered(widget_id) ==
    /\ returned' = Unit
    /\ NoEffect

\* Widget::mouse_exited for TimerWidget
mouse_exited(widget_id) ==
    /\ returned' = Unit
    /\ NoEffect

\* Widget::mouse_scrolled for TimerWidget
mouse_scrolled(widget_id, point) ==
    /\ returned' = Unit
    /\ NoEffect

GetOrigin == get_origin /\ RecordCall("get_origin", NoArg)

GetSize == get_size /\ RecordCall("get_size", NoArg)

MouseEntered ==
    \E id \in WidgetIds : mouse_entered(id) /\ RecordCall("mouse_entered", id)

MouseExited ==
    \E id \in WidgetIds : mouse_exited(id) /\ RecordCall("mouse_exited", id)

MouseScrolled ==
    \E id \in WidgetIds, pt \in Points :
        mouse_scrolled(id, pt) /\ RecordCall("mouse_scrolled", id)

\* The timer driven through its own methods and through the Widget trait,
\* until the clock reads WidgetMaxTime ms after the start.
WidgetNext ==
    \/ Next /\ time_ms(wall') <= StartMs + WidgetMaxTime
    \/ GetOrigin
    \/ GetSize
    \/ MouseEntered
    \/ MouseExited
    \/ MouseScrolled

WidgetSpec == Init /\ [][WidgetNext]_vars

(* ----------------------------- the scenario ---------------------------- *)

\* The Duration since the epoch at the start of millisecond ms.
duration_of_ms(ms) == [secs |-> ms \div 1000, nanos |-> (ms % 1000) * 1000000]

ScenarioInit == new(duration_of_ms(Scenario.start)) /\ overflow_checks = TRUE

ScSetTimeout ==
    /\ last.op = "new"
    /\ set_timeout(Scenario.timeout)
    /\ Record("set_timeout", Scenario.timeout)

ScOnTimeout ==
    /\ last.op = "set_timeout"
    /\ on_timeout("incr")
    /\ Record("on_timeout", "incr")

ScTicking == last.op \in {"on_timeout", "tick"}

\* The clock reading at which the next tick of the scenario is called.
ScNextTick == last.at + Scenario.period

ScSleep ==
    /\ ScTicking
    /\ time_ms(wall) < ScNextTick
    /\ ScNextTick <= Scenario.start + Scenario.duration
    /\ \E late \in ScLate : wall' = duration_add(duration_of_ms(ScNextTick), late)
    /\ UNCHANGED <<enabled, initiated, timeout, timeout_function, counter,
                   invoked, last, prev, fired_at, returned, observed,
           overflow_checks, panicked>>

ScTick ==
    /\ ScTicking
    /\ time_ms(wall) = ScNextTick
    /\ ScNextTick <= Scenario.start + Scenario.duration
    /\ \E ms \in 0..ScMaxSkew : tick(ms * 1000000)
    /\ Record("tick", NoArg)

ScenarioNext ==
    \/ ScSetTimeout
    \/ ScOnTimeout
    \/ ScSleep
    \/ ScTick

ScenarioSpec == ScenarioInit /\ [][ScenarioNext]_vars

\* The last tick of the scenario has been called.
ScenarioDone == IsTick(last) /\ last.at = Scenario.start + Scenario.duration

(* ------------------------------- claims -------------------------------- *)

IsPoll(r) == r.op \in {"tick", "draw"}

\* The time elapsed since the anchor when the operation r was called.
ElapsedAt(r) == r.at - r.pre_initiated

\* C1 (fire-then-rearm): a tick of an enabled timer called when more than
\* timeout ms have passed since the anchor invokes the callback exactly once,
\* and a tick that follows a firing tick no more than timeout ms after it does
\* not invoke the callback.
C1_FireThenRearm ==
    /\ (IsTick(last) /\ last.pre_enabled /\ ElapsedAt(last) > last.pre_timeout)
          => invoked = <<last.pre_function>>
    /\ (IsTick(last) /\ IsTick(prev) /\ prev.fired
            /\ last.at - prev.at <= last.pre_timeout)
          => invoked = <<>>

\* A timer with timeout > 0 fired, and the tick after it, later but within the
\* timeout, did not.
C1_Witness ==
    /\ IsTick(last) /\ IsTick(prev) /\ prev.fired
    /\ prev.pre_enabled /\ ElapsedAt(prev) > prev.pre_timeout
    /\ last.pre_timeout = prev.pre_timeout /\ last.pre_timeout > 0
    /\ last.at > prev.at /\ last.at - prev.at <= last.pre_timeout
    /\ invoked = <<>>

\* C2 (disable suppresses firing): a tick or a draw of a disabled timer invokes
\* no callback, whatever time has elapsed.
C2_DisabledNeverFires ==
    (IsPoll(last) /\ ~last.pre_enabled) => invoked = <<>>

\* A disabled timer, long overdue, was drawn and then ticked, and neither fired.
C2_Witness ==
    /\ IsTick(last) /\ ~last.pre_enabled
    /\ prev.op = "draw" /\ ~prev.pre_enabled /\ ~prev.fired
    /\ ElapsedAt(last) > last.pre_timeout + 1
    /\ invoked = <<>>

\* C3 (re-enable resets the clock): set_enabled(true) on a disabled timer leaves
\* the anchor at the clock reading of that call, and a tick at that same
\* reading does not invoke the callback.
C3_ReenableResets ==
    /\ (last.op = "set_enabled" /\ ~last.pre_enabled /\ last.arg = TRUE)
          => (initiated = last.at /\ invoked = <<>>)
    /\ (IsTick(last) /\ prev.op = "set_enabled" /\ ~prev.pre_enabled
            /\ prev.arg = TRUE /\ last.at = prev.at)
          => invoked = <<>>

\* A timer that was overdue while disabled was re-enabled and ticked at the
\* same reading, and did not fire.
C3_Witness ==
    /\ IsTick(last) /\ prev.op = "set_enabled" /\ ~prev.pre_enabled
    /\ prev.arg = TRUE /\ last.pre_enabled /\ last.at = prev.at
    /\ ElapsedAt(prev) > prev.pre_timeout + 1
    /\ invoked = <<>>

\* C4 (timeout shrink): when set_timeout(T') is called on an enabled timer
\* whose elapsed time already exceeds T', a tick that is the next operation
\* invokes the callback.
C4_ShrinkFires ==
    (IsTick(last) /\ prev.op = "set_timeout" /\ prev.pre_enabled
        /\ ElapsedAt(prev) > prev.arg)
      => invoked # <<>>

\* The timer was not yet due, its timeout was shortened below the elapsed
\* time, and the next tick fired.
C4_Witness ==
    /\ IsTick(last) /\ prev.op = "set_timeout" /\ prev.pre_enabled
    /\ ElapsedAt(prev) <= prev.pre_timeout
    /\ ElapsedAt(prev) > prev.arg
    /\ invoked = <<last.pre_function>>

\* C5 (fresh timer): the tick that follows new() at the same clock reading does
\* not invoke the callback.
C5_FreshNoFire ==
    (IsTick(last) /\ prev.op = "new" /\ last.at = prev.at) => invoked = <<>>

\* new() was followed by a tick in the same millisecond, which did not fire.
C5_Witness ==
    /\ IsTick(last) /\ prev.op = "new" /\ last.at = prev.at
    /\ last.pre_enabled /\ last.pre_timeout = 0
    /\ invoked = <<>>

\* C6 as stated: with timeout = 0 and enabled, every tick invokes the callback.
C6_ZeroTimeoutFiresEveryTick ==
    (IsTick(last) /\ last.pre_enabled /\ last.pre_timeout = 0) => invoked # <<>>

\* C6 amended: with timeout = 0 and enabled, a tick invokes the callback when
\* the clock reading is later than the anchor, and does not when the reading
\* equals the anchor.
C6_ZeroTimeoutFiresAfterAnchor ==
    (IsTick(last) /\ last.pre_enabled /\ last.pre_timeout = 0)
      => /\ last.at > last.pre_initiated => invoked = <<last.pre_function>>
         /\ last.at = last.pre_initiated => invoked = <<>>

\* With timeout 0, one tick fired and the tick after it, in the millisecond of
\* the rearm, did not.
C6_Witness ==
    /\ IsTick(last) /\ last.pre_enabled /\ last.pre_timeout = 0
    /\ last.at = last.pre_initiated /\ invoked = <<>>
    /\ IsTick(prev) /\ prev.pre_timeout = 0 /\ prev.fired

\* C7 as stated: at the end of the scenario (timeout 100 ms, 20 ticks at 10,
\* 20, ..., 200 ms) the counter has been incremented exactly twice.
C7_CounterIsTwo == ScenarioDone => counter = 2

\* C7 amended: at the end of the scenario the counter has been incremented
\* exactly once, by the first tick called more than 100 ms after the start
\* (the one at 110 ms).
C7_CounterIsOne ==
    /\ ScenarioDone => counter = 1
    /\ (IsTick(last) /\ last.fired)
          => last.at = Scenario.start + Scenario.timeout + Scenario.period
    /\ counter \in {0, 1}

\* The scenario has run to its last tick with the counter at 1.
C7_Witness == ScenarioDone /\ counter = 1 /\ timeout = 100 /\ enabled

\* C8 (callback replacement): on_timeout invokes no callback and changes only
\* the callback field; whatever an operation invokes is the callback registered
\* when it was called, once.
C8_CallbackReplacement ==
    /\ last.op = "on_timeout"
          => /\ invoked = <<>>
             /\ timeout_function = last.arg
             /\ enabled = last.pre_enabled
             /\ initiated = last.pre_initiated
             /\ timeout = last.pre_timeout
    /\ invoked # <<>>
          => (invoked = <<last.pre_function>> /\ timeout_function = last.pre_function)

\* A callback was registered over the one of new() before any fire, and the
\* tick after it invoked the new one.
C8_Witness ==
    /\ IsTick(last) /\ prev.op = "on_timeout"
    /\ prev.pre_function = "noop" /\ prev.arg = "incr"
    /\ invoked = <<"incr">> /\ counter = 1

\* C9 (set_enabled): set_enabled(e) leaves enabled = e and the anchor at the
\* clock reading of the call, whatever e and the flag were, invokes no
\* callback and keeps timeout and callback.
C9_SetEnabledFrame ==
    last.op = "set_enabled"
      => /\ enabled = last.arg
         /\ initiated = last.at
         /\ invoked = <<>>
         /\ timeout = last.pre_timeout
         /\ timeout_function = last.pre_function

\* set_enabled(false) on an already disabled timer moved the anchor.
C9_Witness ==
    /\ last.op = "set_enabled" /\ last.arg = FALSE /\ ~last.pre_enabled
    /\ last.at > last.pre_initiated
    /\ initiated = last.at /\ ~enabled

\* C10 (set_timeout): set_timeout(T) leaves timeout = T, keeps the anchor, the
\* flag and the callback, and invokes no callback.
C10_SetTimeoutFrame ==
    last.op = "set_timeout"
      => /\ timeout = last.arg
         /\ initiated = last.pre_initiated
         /\ enabled = last.pre_enabled
         /\ timeout_function = last.pre_function
         /\ invoked = <<>>

\* set_timeout shortened the timeout of an enabled timer below the elapsed
\* time, and itself neither fired nor moved the anchor.
C10_Witness ==
    /\ last.op = "set_timeout" /\ last.arg < last.pre_timeout
    /\ last.pre_enabled /\ enabled
    /\ ElapsedAt(last) > last.arg
    /\ initiated = last.pre_initiated /\ invoked = <<>>

\* The fields other than the clock are those the latest operation was called with.
FieldsKept ==
    /\ enabled = last.pre_enabled
    /\ initiated = last.pre_initiated
    /\ timeout = last.pre_timeout
    /\ timeout_function = last.pre_function

\* C12 (firing condition): a tick invokes the callback if and only if it was
\* called with enabled true and a clock reading more than timeout ms after the
\* anchor; a tick called exactly timeout ms after the anchor invokes nothing
\* and keeps the anchor.
C12_FiresIffDue ==
    IsTick(last)
      => /\ (invoked # <<>>) <=> (last.pre_enabled /\ ElapsedAt(last) > last.pre_timeout)
         /\ (ElapsedAt(last) = last.pre_timeout)
               => (invoked = <<>> /\ initiated = last.pre_initiated)

\* An enabled timer with timeout > 0 was ticked exactly timeout ms after its
\* anchor and did not fire; the tick before it, past the timeout, had fired.
C12_Witness ==
    /\ IsTick(last) /\ last.pre_enabled /\ last.pre_timeout > 0
    /\ ElapsedAt(last) = last.pre_timeout
    /\ invoked = <<>> /\ initiated = last.pre_initiated
    /\ IsTick(prev) /\ prev.fired

\* C14 (no underflow): on a clock that never goes backwards the anchor is never
\* later than the current clock reading, nor than the reading a tick
\* subtracted it from, and no tick has panicked.
C14_AnchorNotAfterNow ==
    /\ initiated <= time_ms(wall)
    /\ IsPoll(last) => last.pre_initiated <= last.at
    /\ ~panicked

\* The anchor has been moved by a fire and then by set_enabled, time has passed
\* since, and a tick has subtracted the anchor from a later reading.
C14_Witness ==
    /\ IsTick(last) /\ last.pre_enabled /\ ~last.fired
    /\ prev.op = "set_enabled" /\ prev.pre_initiated > StartMs
    /\ last.pre_initiated > prev.pre_initiated
    /\ last.at > last.pre_initiated
    /\ initiated < time_ms(wall)

\* C16 (disabled tick is a no-op): a tick called on a disabled timer leaves
\* every field as it was, and as long as the timer is disabled the anchor is
\* the clock reading of the latest set_enabled call.
C16_DisabledTickNoOp ==
    /\ (IsTick(last) /\ ~last.pre_enabled) => (FieldsKept /\ invoked = <<>>)
    /\ (~enabled /\ last.op # "set_enabled") => initiated = last.pre_initiated
    /\ (~enabled /\ last.op = "set_enabled") => initiated = last.at

\* Two ticks were called on a disabled timer long after it was disabled, and
\* the anchor did not move.
C16_Witness ==
    /\ IsTick(last) /\ ~last.pre_enabled /\ IsTick(prev) /\ ~prev.pre_enabled
    /\ last.at > prev.at /\ ElapsedAt(prev) > prev.pre_timeout
    /\ initiated = prev.pre_initiated /\ ~enabled

C20_NoCatchUp ==
    IsTick(last)
      => /\ Len(invoked) <= 1
         /\ last.fired
               => /\ last.at <= initiated /\ initiated <= time_ms(wall)
                  /\ initiated > last.pre_initiated + last.pre_timeout

\* A tick called more than two timeouts after the anchor fired once, and the
\* tick after it at the same reading did not fire.
C20_Witness ==
    /\ IsTick(prev) /\ prev.fired /\ prev.pre_timeout > 0
    /\ ElapsedAt(prev) > 2 * prev.pre_timeout
    /\ IsTick(last) /\ last.at = last.pre_initiated /\ last.pre_timeout = prev.pre_timeout
    /\ invoked = <<>>

\* C19 (minimum spacing): every invocation of the callback happens at a clock
\* reading more than the timeout then in force after the previous invocation,
\* and the first one more than that after construction.
C19_MinSpacing ==
    [][(last' # last /\ last'.fired)
         => /\ time_ms(wall') - fired_at > timeout
            /\ fired_at' = time_ms(wall')]_vars

\* The counting callback has run twice with timeout > 0, the second time after
\* a set_enabled call between the two fires.
C19_Witness ==
    /\ IsTick(last) /\ last.fired /\ counter = 2 /\ timeout > 0
    /\ prev.op = "set_enabled" /\ prev.arg = TRUE
    /\ prev.pre_initiated > StartMs + timeout
    /\ fired_at > prev.at + timeout

IsQuery(r) == r.op \in {"get_origin", "get_size"}

IsMouseHook(r) == r.op \in {"mouse_entered", "mouse_exited", "mouse_scrolled"}

\* C11 (degenerate geometry): get_origin returns (0,0) and get_size returns
\* (0,0) in every state; they and the mouse hooks leave every field of the
\* timer as it was and invoke no callback.
C11_GeometryDegenerate ==
    /\ last.op = "get_origin" => returned = [x |-> 0, y |-> 0]
    /\ last.op = "get_size" => returned = [w |-> 0, h |-> 0]
    /\ (IsQuery(last) \/ IsMouseHook(last))
          => (FieldsKept /\ invoked = <<>> /\ fired_at <= last.at)

\* The size of a disabled, overdue timer with a registered callback was asked
\* for after a mouse hook, and nothing fired.
C11_Witness ==
    /\ last.op = "get_size" /\ returned = [w |-> 0, h |-> 0]
    /\ IsMouseHook(prev) /\ ~prev.fired
    /\ ~enabled /\ timeout > 0 /\ timeout_function = "incr"
    /\ ElapsedAt(last) > timeout
    /\ invoked = <<>>

\* C13 (rearm precedes the callback): when a tick or a draw invokes the
\* callback, the anchor the callback finds is already the new one, a reading
\* taken during that tick, and a tick the callback calls on the same widget at
\* that instant does not invoke the callback again.
C13_RearmBeforeCallback ==
    (IsPoll(last) /\ last.fired)
      => /\ observed = initiated
         /\ observed >= last.at
         /\ observed > last.pre_initiated + last.pre_timeout
         /\ invoked = <<last.pre_function>>

\* An overdue timer with the re-entrant closure fired, and the closure ran once.
C13_Witness ==
    /\ IsTick(last) /\ last.fired /\ last.pre_function = "reenter"
    /\ last.pre_timeout > 0 /\ ElapsedAt(last) > last.pre_timeout
    /\ observed = initiated /\ invoked = <<"reenter">>

\* The clock read less than the anchor when the operation r was called.
Regressed(r) == r.at < r.pre_initiated

\* C15 (clock regression): a tick or draw of an enabled timer called when the
\* clock reads less than the anchor panics in a build with overflow checks,
\* and in a build without computes a wrapped elapsed time and fires; it never
\* treats the timer as not yet due.  A tick of a disabled timer is unaffected.
C15_RegressionUnhandled ==
    /\ (IsPoll(last) /\ last.pre_enabled /\ Regressed(last))
          => IF overflow_checks
             THEN panicked /\ invoked = <<>> /\ FieldsKept
             ELSE ~panicked /\ invoked = <<last.pre_function>>
                    /\ initiated >= last.at
    /\ (IsPoll(last) /\ ~last.pre_enabled) => (~panicked /\ FieldsKept /\ invoked = <<>>)
    /\ panicked => (IsPoll(last) /\ last.pre_enabled /\ Regressed(last))

\* In a build without overflow checks, a timer with timeout > 0 was ticked
\* with the clock behind its anchor and fired.
C15_Witness ==
    /\ ~overflow_checks /\ IsTick(last) /\ last.pre_enabled /\ Regressed(last)
    /\ last.pre_timeout > 0 /\ invoked # <<>>

\* In a build with overflow checks, a tick with the clock behind the anchor
\* has panicked.
C15_WitnessPanic ==
    /\ overflow_checks /\ panicked /\ IsTick(last) /\ Regressed(last)

\* The clock can still reach a reading at which the timer is due.
CanBecomeDue == initiated + timeout < StartMs + MaxTime

\* C18 (periodic firing): while the timer stays enabled with the timeout set at
\* the start, tick keeps being called and the clock keeps advancing, every
\* invocation of the callback (and construction) is followed by another one,
\* for as long as the clock can still pass the rearmed deadline.
C18_FiresAgain ==
    \A f \in StartMs..(StartMs + MaxTime) :
        (fired_at = f /\ last.op # "new" /\ CanBecomeDue) ~> (fired_at > f)

\* The counting callback has run three times on a timer left enabled.
C18_Witness ==
    /\ counter = 3 /\ enabled /\ IsTick(last) /\ last.fired
    /\ fired_at > StartMs + 2

====
